---- MODULE Spec2Model ----
(***************************************************************************)
(* A model of ptree/models/matches.py (match assignment and the match      *)
(* predicates) and of ptree/sequence_of_experiments/models.py (the chain   *)
(* of experiments and the per-participant chains).                         *)
(*                                                                         *)
(* Three state machines share the variables: MatchSpec, the assignment of  *)
(* participants to matches by concurrent requests; ChainSpec, the chain of *)
(* experiments built by add_experiments; LinkSpec, the chain and the       *)
(* participants linked along it.                                           *)
(***************************************************************************)
EXTENDS Integers, Sequences, FiniteSets

\* ------------------------------------------------------------------ bounds
NumParticipants == 3
MaxMatches == 2
NumExperiments == 2
MaxPerExperiment == 2
MaxAdds == 1

\* The null pointer (Python None) of a foreign key holding an integer id.
None == 0

\* ======================================================================
\* Part 1: matches
\* ======================================================================

VARIABLES
    matches,              \* the match table in scan order: rows [treatment, participant_1, participant_2]
    match,                \* match[p]: the match participant p points at (participant_set is its reverse)
    is_finished_playing,  \* is_finished_playing[p]: what p.is_finished_playing() returns
    is_finished,          \* is_finished[p]: whether p has reported completion
    session,              \* session[p]: the treatment code stored in p's request session
    pc,                   \* pc[p]: where p's request stands
    found                 \* found[p]: the match next_open_match returned to p's request

matchVars == <<matches, match, is_finished_playing, is_finished, session, pc, found>>

VARIABLES
    first_experiment,          \* SequenceOfExperiments.first_experiment
    next_experiment,           \* next_experiment[e] of every experiment
    previous_experiment,       \* previous_experiment[e] of every experiment
    sequence_of_experiments,   \* sequence_of_experiments[e]: None or Self
    num_in_experiment,         \* num_in_experiment[e]: how many participants experiment e has
    num_participants,          \* how many Participant rows the sequence has
    me_in_next_experiment,     \* of every participant of every experiment
    me_in_previous_experiment, \* of every participant of every experiment
    me_in_first_experiment,    \* of every Participant of the sequence
    call,                      \* the last call of a method of the sequence and how it ended
    adds                       \* how many add_experiments calls LinkSpec has made (at most MaxAdds)

seqVars == <<first_experiment, next_experiment, previous_experiment,
             sequence_of_experiments, num_in_experiment, num_participants,
             me_in_next_experiment, me_in_previous_experiment,
             me_in_first_experiment, call, adds>>

vars == <<matchVars, seqVars>>

Participants == 1..NumParticipants

\* The treatments: two variants of a two-person game.
Treatments ==
    { [code |-> "T1", participants_per_match |-> 2],
      [code |-> "T2", participants_per_match |-> 2] }

TreatmentCodes == { t.code : t \in Treatments }

\* Sequence of the elements of a finite set of integers, ascending (pk order).
RECURSIVE SortedSeq(_)
SortedSeq(S) ==
    IF S = {} THEN <<>>
    ELSE LET lo == CHOOSE x \in S : \A y \in S : x <= y
         IN  <<lo>> \o SortedSeq(S \ {lo})

\* BaseMatch.participants: self.participant_set.all()
participants(m) == SortedSeq({ p \in Participants : match[p] = m })

\* A match that compares with > instead of >=.
is_full_Strict(m) ==
    Len(participants(m)) > matches[m].treatment.participants_per_match

\* BaseMatch.is_full
is_full(m) ==
    Len(participants(m)) >= matches[m].treatment.participants_per_match

\* The list comprehension of is_finished: one entry per participant.
FinishedList(m) ==
    [ i \in 1..Len(participants(m)) |-> is_finished[participants(m)[i]] ]

\* Python truth value of a list: non-empty.
ListTruthy(l) == Len(l) > 0

\* BaseMatch.is_finished: `is_full() and [ ... ]`, as a truth value.
MatchIsFinished(m) == is_full(m) /\ ListTruthy(FinishedList(m))

\* A readiness test that forgets the second slot.
is_ready_IgnoringSlot2(m) ==
    IF matches[m].participant_1 = None THEN FALSE
    ELSE is_finished_playing[matches[m].participant_1]

\* MatchInTwoPersonAsymmetricGame.is_ready_for_next_participant, as a truth
\* value: `a and b and not c` stops at the first falsy operand.
is_ready_for_next_participant(m) ==
    IF matches[m].participant_1 = None THEN FALSE
    ELSE IF ~is_finished_playing[matches[m].participant_1] THEN FALSE
    ELSE matches[m].participant_2 = None

\* The generator of next_open_match advanced from row i: the first row that
\* passes both tests, or None when the rows run out (StopIteration).
RECURSIVE ScanFrom(_, _)
ScanFrom(i, code) ==
    IF i > Len(matches) THEN None
    ELSE IF matches[i].treatment.code = code /\ is_ready_for_next_participant(i)
         THEN i
         ELSE ScanFrom(i + 1, code)

\* A scan that does not compare the treatment code.
RECURSIVE ScanAnyTreatment(_)
ScanAnyTreatment(i) ==
    IF i > Len(matches) THEN None
    ELSE IF is_ready_for_next_participant(i) THEN i
         ELSE ScanAnyTreatment(i + 1)

next_open_match_AnyTreatment(p) == ScanAnyTreatment(1)

\* MatchManager.next_open_match(request), request being p's.
next_open_match(p) == ScanFrom(1, session[p])

MatchInit ==
    /\ matches = <<>>
    /\ match = [p \in Participants |-> None]
    /\ is_finished_playing = [p \in Participants |-> FALSE]
    /\ is_finished = [p \in Participants |-> FALSE]
    /\ session \in [Participants -> TreatmentCodes]
    /\ pc = [p \in Participants |-> "start"]
    /\ found = [p \in Participants |-> None]

\* p's request calls next_open_match: it gets a match or StopIteration.
NextOpenMatch(p) ==
    /\ pc[p] = "start"
    /\ found' = [found EXCEPT ![p] = next_open_match(p)]
    /\ pc' = [pc EXCEPT ![p] = IF next_open_match(p) = None THEN "StopIteration" ELSE "got"]
    /\ UNCHANGED <<matches, match, is_finished_playing, is_finished, session>>
    /\ UNCHANGED seqVars

\* p's request joins the match it was given, as the second participant.
JoinMatch(p) ==
    /\ pc[p] = "got"
    /\ matches' = [matches EXCEPT ![found[p]].participant_2 = p]
    /\ match' = [match EXCEPT ![p] = found[p]]
    /\ pc' = [pc EXCEPT ![p] = "playing"]
    /\ UNCHANGED <<is_finished_playing, is_finished, session, found>>
    /\ UNCHANGED seqVars

\* No open match: p's request creates one, with p as its first participant.
CreateMatch(p) ==
    /\ pc[p] = "StopIteration"
    /\ Len(matches) < MaxMatches
    /\ \E t \in Treatments :
          /\ t.code = session[p]
          /\ matches' = Append(matches,
                 [treatment |-> t, participant_1 |-> p, participant_2 |-> None])
    /\ match' = [match EXCEPT ![p] = Len(matches) + 1]
    /\ pc' = [pc EXCEPT ![p] = "playing"]
    /\ UNCHANGED <<is_finished_playing, is_finished, session, found>>
    /\ UNCHANGED seqVars

\* p finishes playing its part of the game.
FinishPlaying(p) ==
    /\ pc[p] = "playing"
    /\ ~is_finished_playing[p]
    /\ is_finished_playing' = [is_finished_playing EXCEPT ![p] = TRUE]
    /\ UNCHANGED <<matches, match, is_finished, session, pc, found>>
    /\ UNCHANGED seqVars

\* p reports completion.
Finish(p) ==
    /\ pc[p] = "playing"
    /\ is_finished_playing[p]
    /\ ~is_finished[p]
    /\ is_finished' = [is_finished EXCEPT ![p] = TRUE]
    /\ UNCHANGED <<matches, match, is_finished_playing, session, pc, found>>
    /\ UNCHANGED seqVars

\* ======================================================================
\* Part 2: the sequence of experiments
\* ======================================================================

Experiments == 1..NumExperiments

\* The one SequenceOfExperiments of the model.
Self == 1

\* The null pointer of a foreign key to a participant of an experiment.
NoParticipant == <<>>

\* Every participant an experiment may have: <<e, i>> is the i-th of e.
ExperimentParticipants ==
    { <<e, i>> : e \in Experiments, i \in 1..MaxPerExperiment }

\* Every Participant row the sequence may have.
SequenceParticipants == 1..MaxPerExperiment

\* The lists add_experiments is called with: any order, repeats included.
RECURSIVE ListsOfLen(_)
ListsOfLen(n) ==
    IF n = 0 THEN { <<>> }
    ELSE { Append(l, e) : l \in ListsOfLen(n - 1), e \in Experiments }

ExperimentLists == UNION { ListsOfLen(n) : n \in 0..NumExperiments }

\* The walk of experiments() from e, cut after `fuel` elements.
RECURSIVE ChainFrom(_, _)
ChainFrom(e, fuel) ==
    IF e = None \/ fuel = 0 THEN <<>>
    ELSE <<e>> \o ChainFrom(next_experiment[e], fuel - 1)

\* SequenceOfExperiments.experiments: the list the loop builds. A chain
\* without a cycle holds every experiment at most once, so a walk longer
\* than NumExperiments is one that never reaches None.
experiments == ChainFrom(first_experiment, NumExperiments + 1)

\* Whether the loop of experiments() ends.
experiments_returns == Len(experiments) <= NumExperiments

\* experiment.participants() of experiment e, in its order.
participants_of(e) == [ i \in 1..num_in_experiment[e] |-> <<e, i>> ]

\* The walk of Participant.participants() from a record, cut after `fuel`.
RECURSIVE MeChainFrom(_, _)
MeChainFrom(r, fuel) ==
    IF r = NoParticipant \/ fuel = 0 THEN <<>>
    ELSE <<r>> \o MeChainFrom(me_in_next_experiment[r], fuel - 1)

\* A walk that stops after the first record.
me_participants_FirstOnly(j) ==
    MeChainFrom(me_in_first_experiment[j], 1)

\* Participant.participants of the j-th Participant of the sequence.
me_participants(j) ==
    MeChainFrom(me_in_first_experiment[j], Cardinality(ExperimentParticipants) + 1)

\* The first loop of add_experiments from index i on, on next_experiment.
RECURSIVE WireNext(_, _, _)
WireNext(nx, L, i) ==
    IF i > Len(L) - 1 THEN nx
    ELSE WireNext([nx EXCEPT ![L[i]] = L[i + 1]], L, i + 1)

\* The first loop of add_experiments from index i on, on previous_experiment.
RECURSIVE WirePrevious(_, _, _)
WirePrevious(pv, L, i) ==
    IF i > Len(L) - 1 THEN pv
    ELSE WirePrevious([pv EXCEPT ![L[i + 1]] = L[i]], L, i + 1)

\* The elements of a list.
Elements(L) == { L[i] : i \in 1..Len(L) }

\* The sequence after creation: no experiment added, nothing linked. An
\* experiment has MaxPerExperiment participants or one fewer, and so has the
\* sequence Participant rows.
SeqInit ==
    /\ first_experiment = None
    /\ next_experiment = [e \in Experiments |-> None]
    /\ previous_experiment = [e \in Experiments |-> None]
    /\ sequence_of_experiments = [e \in Experiments |-> None]
    /\ num_in_experiment \in [Experiments -> (MaxPerExperiment - 1)..MaxPerExperiment]
    /\ num_participants \in (MaxPerExperiment - 1)..MaxPerExperiment
    /\ adds = 0
    /\ me_in_next_experiment = [r \in ExperimentParticipants |-> NoParticipant]
    /\ me_in_previous_experiment = [r \in ExperimentParticipants |-> NoParticipant]
    /\ me_in_first_experiment = [j \in SequenceParticipants |-> NoParticipant]
    /\ call = [op |-> "none", experiments |-> <<>>, raised |-> "none"]

\* SequenceOfExperiments.add_experiments(L)
add_experiments(L) ==
    IF Len(L) = 0
    THEN /\ call' = [op |-> "add_experiments", experiments |-> L, raised |-> "IndexError"]
         /\ UNCHANGED <<first_experiment, next_experiment, previous_experiment,
                        sequence_of_experiments>>
    ELSE /\ first_experiment' = L[1]
         /\ next_experiment' = WireNext(next_experiment, L, 1)
         /\ previous_experiment' = WirePrevious(previous_experiment, L, 1)
         /\ sequence_of_experiments' =
                [e \in Experiments |->
                    IF e \in Elements(L) THEN Self ELSE sequence_of_experiments[e]]
         /\ call' = [op |-> "add_experiments", experiments |-> L, raised |-> "none"]

AddExperiments ==
    /\ \E L \in ExperimentLists : add_experiments(L)
    /\ UNCHANGED <<num_in_experiment, num_participants, me_in_next_experiment,
                   me_in_previous_experiment, me_in_first_experiment, adds>>
    /\ UNCHANGED matchVars

\* add_experiments on a sequence that is set up at most MaxAdds times.
AddExperimentsCounted ==
    /\ adds < MaxAdds
    /\ adds' = adds + 1
    /\ \E L \in ExperimentLists : add_experiments(L)
    /\ UNCHANGED <<num_in_experiment, num_participants, me_in_next_experiment,
                   me_in_previous_experiment, me_in_first_experiment>>
    /\ UNCHANGED matchVars

\* Whether step (k, i) of the loops of connect_participants_between_experiments
\* finds both participants_left[i] and participants_right[i].
StepInRange(chain, k, i) ==
    /\ i <= Len(participants_of(chain[k]))
    /\ i <= Len(participants_of(chain[k + 1]))

\* An inner loop over range(num_participants - 1): the last index is left out.
InnerLoopBound_OneLess(num) == num - 1

\* The bound of the inner loop: range(num_participants).
InnerLoopBound(num) == num

\* The two loops of connect_participants_between_experiments from step
\* (k, i) on, k over the adjacent pairs of the chain and i over the
\* participant indices; st holds the pointers as saved so far. A step whose
\* index is out of range raises IndexError and ends the call there.
RECURSIVE ConnectFrom(_, _, _, _, _)
ConnectFrom(chain, num, k, i, st) ==
    IF k > Len(chain) - 1 THEN st
    ELSE IF i > InnerLoopBound(num) THEN ConnectFrom(chain, num, k + 1, 1, st)
    ELSE IF ~StepInRange(chain, k, i) THEN [st EXCEPT !.raised = "IndexError"]
    ELSE LET participant_left  == participants_of(chain[k])[i]
             participant_right == participants_of(chain[k + 1])[i]
         IN  ConnectFrom(chain, num, k, i + 1,
                 [st EXCEPT !.next[participant_left] = participant_right,
                            !.previous[participant_right] = participant_left])

\* SequenceOfExperiments.connect_participants_between_experiments
connect_participants_between_experiments ==
    IF ~experiments_returns
    THEN /\ call' = [op |-> "connect", experiments |-> <<>>, raised |-> "never returns"]
         /\ UNCHANGED <<me_in_next_experiment, me_in_previous_experiment>>
    ELSE LET end == ConnectFrom(experiments, num_participants, 1, 1,
                        [next |-> me_in_next_experiment,
                         previous |-> me_in_previous_experiment,
                         raised |-> "none"])
         IN  /\ me_in_next_experiment' = end.next
             /\ me_in_previous_experiment' = end.previous
             /\ call' = [op |-> "connect", experiments |-> <<>>, raised |-> end.raised]

ConnectParticipants ==
    /\ connect_participants_between_experiments
    /\ UNCHANGED <<first_experiment, next_experiment, previous_experiment,
                   sequence_of_experiments, num_in_experiment, num_participants,
                   me_in_first_experiment, adds>>
    /\ UNCHANGED matchVars

\* The j-th Participant of the sequence is given its record in the first experiment.
AssignFirst(j) ==
    /\ j <= num_participants
    /\ first_experiment # None
    /\ j <= Len(participants_of(first_experiment))
    /\ me_in_first_experiment[j] # participants_of(first_experiment)[j]
    /\ me_in_first_experiment' =
           [me_in_first_experiment EXCEPT ![j] = participants_of(first_experiment)[j]]
    /\ UNCHANGED <<first_experiment, next_experiment, previous_experiment,
                   sequence_of_experiments, num_in_experiment, num_participants,
                   me_in_next_experiment, me_in_previous_experiment, call, adds>>
    /\ UNCHANGED matchVars

\* ======================================================================
\* The specifications
\* ======================================================================

MatchNext ==
    \E p \in Participants :
        \/ NextOpenMatch(p)
        \/ JoinMatch(p)
        \/ CreateMatch(p)
        \/ FinishPlaying(p)
        \/ Finish(p)

\* The sequence part at rest, for the specification of the matches.
SeqIdle ==
    /\ SeqInit
    /\ num_in_experiment = [e \in Experiments |-> MaxPerExperiment]
    /\ num_participants = MaxPerExperiment

\* The matches before any request, beside a sequence at rest.
MatchSpecInit == MatchInit /\ SeqIdle

MatchSpec == MatchSpecInit /\ [][MatchNext]_vars

\* The match part at rest, for the specifications of the sequence.
MatchIdle ==
    /\ MatchInit
    /\ session = [p \in Participants |-> "T1"]

\* The chain of experiments alone: the participants are left as created.
ChainInit ==
    /\ MatchIdle
    /\ SeqInit
    /\ num_in_experiment = [e \in Experiments |-> MaxPerExperiment]
    /\ num_participants = MaxPerExperiment

ChainNext == AddExperiments

ChainSpec == ChainInit /\ [][ChainNext]_vars

\* The chain and the participants linked along it.
LinkNext ==
    \/ AddExperimentsCounted
    \/ ConnectParticipants
    \/ \E j \in SequenceParticipants : AssignFirst(j)

\* A sequence whose experiments and Participant rows exist, none linked.
LinkInit == MatchIdle /\ SeqInit

LinkSpec == LinkInit /\ [][LinkNext]_vars

\* ======================================================================
\* The claims
\* ======================================================================

MatchIds == 1..Len(matches)

\* C1: the number of participants of a match never exceeds its treatment's
\* participants_per_match, whatever the interleaving of the requests that
\* call next_open_match and then join the match it returned.
C1_CapacityNeverExceeded ==
    \A m \in MatchIds :
        Len(participants(m)) <= matches[m].treatment.participants_per_match

\* The matches that have the treatment code of p's session and are ready.
OpenMatchesFor(p) ==
    { m \in MatchIds :
        /\ matches[m].treatment.code = session[p]
        /\ is_ready_for_next_participant(m) }

\* C4: next_open_match returns the first match in scan order that has the
\* session's treatment code and is ready for the next participant, and
\* signals StopIteration exactly when there is no such match.
C4_NextOpenMatchFirstOpen ==
    [][ \A p \in Participants :
          (pc[p] = "start" /\ pc'[p] # "start") =>
              IF OpenMatchesFor(p) = {}
              THEN pc'[p] = "StopIteration" /\ found'[p] = None
              ELSE /\ pc'[p] = "got"
                   /\ found'[p] \in OpenMatchesFor(p)
                   /\ \A m \in OpenMatchesFor(p) : found'[p] <= m ]_vars

\* A request was given the second match of the table, the first one skipped.
C4_Witness ==
    \E p \in Participants : pc[p] = "got" /\ found[p] = 2

\* C5: a two-person match is ready for the next participant if and only if
\* participant_1 is set, participant_1 has finished playing and
\* participant_2 is unset.
C5_ReadyIffSlot1DoneSlot2Free ==
    \A m \in MatchIds :
        is_ready_for_next_participant(m) <=>
            /\ matches[m].participant_1 # None
            /\ is_finished_playing[matches[m].participant_1]
            /\ matches[m].participant_2 = None

\* One match is ready; another, whose first participant has finished
\* playing too, has its second slot taken and is not.
C5_Witness ==
    /\ \E m \in MatchIds : is_ready_for_next_participant(m)
    /\ \E m \in MatchIds :
          /\ is_finished_playing[matches[m].participant_1]
          /\ matches[m].participant_2 # None

\* C6: is_finished() holds only of a full match all of whose participants
\* have reported completion.
C6_FinishedOnlyWhenAllFinished ==
    \A m \in MatchIds :
        MatchIsFinished(m) =>
            /\ is_full(m)
            /\ \A p \in Participants : match[p] = m => is_finished[p]

\* C9: is_full() holds if and only if the number of participants of the
\* match is at least its treatment's participants_per_match.
C9_FullIffCountAtLeastCapacity ==
    \A m \in MatchIds :
        is_full(m) <=>
            Cardinality({ p \in Participants : match[p] = m })
                >= matches[m].treatment.participants_per_match

\* A match holds exactly as many participants as its treatment allows, and
\* another one fewer.
C9_Witness ==
    /\ \E m \in MatchIds :
          Cardinality({ p \in Participants : match[p] = m })
              = matches[m].treatment.participants_per_match
    /\ \E m \in MatchIds :
          Cardinality({ p \in Participants : match[p] = m })
              < matches[m].treatment.participants_per_match

\* C2: after add_experiments(L) returns for a non-empty L, experiments()
\* returns exactly L, whatever the pointers were before the call.
C2_ExperimentsReturnsTheList ==
    (call.op = "add_experiments" /\ call.raised = "none") =>
        /\ experiments_returns
        /\ experiments = call.experiments

\* C7: after any sequence of add_experiments calls the chain from
\* first_experiment is acyclic and ends in None, so experiments() returns.
C7_ChainAcyclic == experiments_returns

\* What add_experiments leaves alone whatever L is: the pointers it never
\* writes, and everything when L is empty.
FrameOf(L) ==
    /\ UNCHANGED <<num_in_experiment, num_participants, me_in_next_experiment,
                   me_in_previous_experiment, me_in_first_experiment>>
    /\ IF Len(L) = 0
       THEN /\ call'.raised = "IndexError"
            /\ UNCHANGED <<first_experiment, next_experiment, previous_experiment,
                           sequence_of_experiments>>
       ELSE /\ call'.raised = "none"
            /\ \A e \in Experiments \ Elements(L) :
                  /\ next_experiment'[e] = next_experiment[e]
                  /\ previous_experiment'[e] = previous_experiment[e]
                  /\ sequence_of_experiments'[e] = sequence_of_experiments[e]

\* C10: add_experiments(L) leaves next_experiment of the last element of L,
\* previous_experiment of the first element of L and every pointer of the
\* experiments not in L unchanged, and raises IndexError before changing
\* anything when L is empty.
C10_FrameAsStated ==
    [][ \A L \in ExperimentLists :
          add_experiments(L) =>
              /\ FrameOf(L)
              /\ Len(L) > 0 =>
                    /\ next_experiment'[L[Len(L)]] = next_experiment[L[Len(L)]]
                    /\ previous_experiment'[L[1]] = previous_experiment[L[1]] ]_vars

\* connect_participants_between_experiments was the last call and returned.
ConnectReturned == call.op = "connect" /\ call.raised = "none"

\* The participant lists of the experiments of the chain have one length.
SameLengthAlongChain ==
    \A k \in 1..Len(experiments) :
        num_in_experiment[experiments[k]] = num_in_experiment[experiments[1]]

\* The i-th participants of the k-th and (k+1)-th experiments point at each other.
Linked(k, i) ==
    /\ me_in_next_experiment[<<experiments[k], i>>] = <<experiments[k + 1], i>>
    /\ me_in_previous_experiment[<<experiments[k + 1], i>>] = <<experiments[k], i>>

\* C3 as stated: provided the participant lists of the experiments of the
\* chain have the same length, after connect_participants_between_experiments
\* returns every participant index i of every experiment is linked across
\* every adjacent pair k, k+1 of the chain.
C3_AllIndicesLinked ==
    (ConnectReturned /\ SameLengthAlongChain) =>
        \A k \in 1..(Len(experiments) - 1) :
            \A i \in 1..num_in_experiment[experiments[k]] : Linked(k, i)

\* C3, amended: under the same proviso, after the call returns every
\* participant index i below the number of Participant rows of the sequence
\* (the bound of the inner loop) is linked across every adjacent pair.
C3_IndicesBelowNumParticipantsLinked ==
    (ConnectReturned /\ SameLengthAlongChain) =>
        \A k \in 1..(Len(experiments) - 1) :
            \A i \in 1..num_in_experiment[experiments[k]] :
                i <= num_participants => Linked(k, i)

\* The call returned on a chain of two experiments or more whose
\* participants, one at least, were linked.
C3_Witness ==
    /\ ConnectReturned
    /\ SameLengthAlongChain
    /\ Len(experiments) >= 2
    /\ num_participants >= 1
    /\ num_in_experiment[experiments[1]] >= 1
    /\ Linked(1, 1)

\* The records of the j-th Participant along the chain of experiments.
RecordsAlongChain(j) == [ k \in 1..Len(experiments) |-> <<experiments[k], j>> ]

\* The j-th Participant has a record in every experiment of the chain.
HasRecordsAlongChain(j) ==
    \A k \in 1..Len(experiments) : j <= num_in_experiment[experiments[k]]

\* C8 as stated: after add_experiments followed by
\* connect_participants_between_experiments, participants() of every
\* Participant of the sequence (that has a record in each experiment of the
\* chain) has the length of experiments() and its k-th element is the
\* Participant's record in the k-th experiment.
C8_ParticipantChainMirrorsExperiments ==
    ConnectReturned =>
        \A j \in 1..num_participants :
            HasRecordsAlongChain(j) => me_participants(j) = RecordsAlongChain(j)

\* C8, amended: the same, of every Participant of the sequence whose
\* me_in_first_experiment is its record in the first experiment.
C8_ParticipantChainMirrorsFromFirst ==
    ConnectReturned =>
        \A j \in 1..num_participants :
            me_in_first_experiment[j] = <<first_experiment, j>> =>
                me_participants(j) = RecordsAlongChain(j)

\* The call returned on a chain of two experiments or more and a Participant
\* starts at its record in the first of them.
C8_Witness ==
    /\ ConnectReturned
    /\ Len(experiments) >= 2
    /\ \E j \in 1..num_participants :
          me_in_first_experiment[j] = <<first_experiment, j>>

====
